---- MODULE Spec2Model ----
(***************************************************************************)
(* Watch-my-pod monitor (Go): the pod informer's event handlers, the       *)
(* bad-state classifier, the rising-edge detector, the alert cache guarded  *)
(* by an RWMutex, and the dispatcher (internal/monitor/controller.go).      *)
(* controller.go holds two controllers: the alert-cache controller          *)
(* (onAdd/onUpdate/checkAndTrigger/triggerAnalysis) and the work-queue      *)
(* controller (handleAdd/handleUpdate/handleDelete/processNextItem).        *)
(* The variable `variant` says which of the two is built.                   *)
(***************************************************************************)
EXTENDS Integers, Sequences, FiniteSets, TLC

\* ------------------------------------------------------------ bounds
\* The clock runs 0..MaxTime, in hours.
MaxTime == 2
\* Goroutines that may be inside an event handler at the same time.
NumHandlers == 2
\* Longest containerStatuses sequence of the classifier's inputs.
MaxContainers == 2

\* const alertWaitPeriod = 2 * time.Hour
alertWaitPeriod == 2

Handlers == 1..NumHandlers
NoTime == 0 - 1
Nil == "<nil>"

\* ------------------------------------------------------------ pods
\* The watched pods' identities (metadata.namespace, metadata.name).
Pods ==
    { [namespace |-> "default", name |-> "web"],
      [namespace |-> "prod", name |-> "db"] }

\* fmt.Sprintf("%s/%s", pod.Namespace, pod.Name)
podKey(pod) == pod.namespace \o "/" \o pod.name

\* corev1.ContainerState: Waiting and Terminated are pointers (Nil or a reason).
ContainerState(w, t) == [waiting |-> w, terminated |-> t]
WaitingReasons ==
    {"CrashLoopBackOff", "ImagePullBackOff", "ErrImagePull", "ContainerCreating"}
TerminatedReasons == {"Error", "Completed"}
ContainerStates ==
    { ContainerState(w, t) : w \in WaitingReasons \cup {Nil},
                             t \in TerminatedReasons \cup {Nil} }
Phases == {"Pending", "Running", "Failed"}

\* corev1.PodStatus, the fields the classifier reads.
PodStatus(phase, cs) == [phase |-> phase, containerStatuses |-> cs]

SeqsUpTo(S, n) == UNION { [1..k -> S] : k \in 0..n }
AllStatuses ==
    { PodStatus(ph, cs) : ph \in Phases, cs \in SeqsUpTo(ContainerStates, MaxContainers) }

\* The pod is not in the informer's store.
Absent == PodStatus("<absent>", << >>)

\* The observations the informer delivers in the pipeline.
Healthy == PodStatus("Running", << ContainerState(Nil, Nil) >>)
CrashLoop == PodStatus("Running", << ContainerState("CrashLoopBackOff", Nil) >>)
FailedPod == PodStatus("Failed", << >>)
Completed == PodStatus("Running", << ContainerState(Nil, "Completed") >>)
ErrorThenCrashLoop ==
    PodStatus("Running",
              << ContainerState(Nil, "Error"), ContainerState("CrashLoopBackOff", Nil) >>)
EventObs == {Healthy, Completed, CrashLoop, FailedPod, ErrorThenCrashLoop}
\* The bad observations of the concurrent handlers' candidates.
ConcObs == {CrashLoop}

\* ------------------------------------------------------------ classifier
Verdict(bad, reason) == [isBad |-> bad, reason |-> reason]

\* The loop of checkPodBadState over pod.Status.ContainerStatuses, from index i.
RECURSIVE scanContainers(_, _)
scanContainers(cs, i) ==
    IF i > Len(cs) THEN Verdict(FALSE, "")
    ELSE IF cs[i].waiting # Nil
            /\ cs[i].waiting \in {"CrashLoopBackOff", "ImagePullBackOff", "ErrImagePull"}
         THEN Verdict(TRUE, cs[i].waiting)
    ELSE IF cs[i].terminated # Nil /\ cs[i].terminated = "Error"
         THEN Verdict(TRUE, "Terminated(Error)")
    ELSE scanContainers(cs, i + 1)


\* A faulty checkPodBadState: any terminated container counts, whatever its reason.
checkPodBadState_anyTerminated(status) ==
    IF status.phase = "Failed" THEN Verdict(TRUE, "PodFailed")
    ELSE IF \E i \in 1..Len(status.containerStatuses) :
                status.containerStatuses[i].terminated # Nil
         THEN Verdict(TRUE, "Terminated(Error)")
    ELSE scanContainers(status.containerStatuses, 1)


\* func checkPodBadState(pod *corev1.Pod) (bool, string): the phase first, then
\* the containers in order.
checkPodBadState(status) ==
    IF status.phase = "Failed" THEN Verdict(TRUE, "PodFailed")
    ELSE scanContainers(status.containerStatuses, 1)

\* ------------------------------------------------------------ state
VARIABLES
    variant,        \* "cache": the alert-cache controller; "queue": the work-queue one
    now,            \* the clock (time.Now), in hours
    store,          \* the informer's store: pod identity -> last observed status
    alertCache,     \* Controller.alertCache: podKey -> time of the last allowed alert
    readers,        \* cacheMutex: the handlers holding the read lock
    writer,         \* cacheMutex: the handlers holding the write lock (at most one)
    pc,             \* per handler goroutine: where it is in checkAndTrigger
    hpod,           \* per handler: the pod passed to checkAndTrigger
    hreason,        \* per handler: the reason passed to checkAndTrigger
    lastAlertTime,  \* per handler: the local read of alertCache[podKey]
    exists,         \* per handler: the local "exists" of that read
    payload,        \* per handler: the JSON payload of the request in flight
    lastLog,        \* the last line an event handler or the worker wrote to the log
                    \* (its format string)
    queue,          \* work-queue controller: the queue's order
    dirty,          \* work queue: keys added and not yet handed to a worker
    processing,     \* work queue: keys a worker holds
    wkey,           \* the worker's key between Get and Done ("" when it holds none)
    committed,      \* history: the time the handler wrote to alertCache
    failed,         \* history: the podKeys whose last allowed alert was not delivered
    episode,        \* history: per pod, "normal" (no candidate since its last not-bad
                    \* observation), "candidate" (its last observation produced a
                    \* candidate) or "stillBad" (it was observed bad again since)
    input,          \* classifier harness: the status given to checkPodBadState
    result,         \* classifier harness: its verdict
    run,            \* where main's goroutine is in Controller.Run
    stopCh,         \* TRUE once stopCh is closed
    exit,           \* "" while the process runs; else how it ended: "returned" (main
                    \* returned), "fatal" (log.Fatalf) or "panic"
    inFlight        \* history: the handlers that were inside triggerAnalysis when
                    \* stopCh was closed

handlerVars == << pc, hpod, hreason, lastAlertTime, exists, payload, committed >>
lockVars == << readers, writer >>
queueVars == << queue, dirty, processing, wkey >>
classifyVars == << input, result >>
lifeVars == << run, stopCh, exit, inFlight >>
vars ==
    << variant, now, store, alertCache, readers, writer, pc, hpod, hreason,
       lastAlertTime, exists, payload, lastLog, queue, dirty, processing, wkey,
       committed, failed, episode, input, result, run, stopCh, exit,
       inFlight >>

NoPod == [namespace |-> "", name |-> "", status |-> Absent]
NoPayload == [namespace |-> "", pod_name |-> "", reason |-> ""]
Pending == Verdict(FALSE, "<pending>")

\* The log lines (log.Printf format strings, shortened).
LogTriggerAdd == "TRIGGER_CHECK: New pod is in bad state"
LogTriggerUpdate == "TRIGGER_CHECK: Pod has entered bad state"
LogSuppressed == "SUPPRESSED ALERT"
LogTriggering == "Triggering analysis for pod"
LogSendFailed == "ERROR: Failed to send request to agent"
LogNon200 == "ERROR: Agent service returned non-200 status"
LogSuccess == "Successfully triggered analysis"
LogPodAdded == "Pod added"
LogPodUpdated == "Pod updated"
LogPodDeleted == "Pod deleted"
LogProcessing == "Processing item"

\* The *corev1.Pod an event carries.
PodObject(p, status) == [namespace |-> p.namespace, name |-> p.name, status |-> status]

\* NewController: the state of a freshly constructed controller.
NewController ==
    /\ now = 0
    /\ store = [p \in Pods |-> Absent]
    /\ alertCache = [k \in {} |-> 0]
    /\ readers = {}
    /\ writer = {}
    /\ pc = [h \in Handlers |-> "idle"]
    /\ hpod = [h \in Handlers |-> NoPod]
    /\ hreason = [h \in Handlers |-> ""]
    /\ lastAlertTime = [h \in Handlers |-> 0]
    /\ exists = [h \in Handlers |-> FALSE]
    /\ payload = [h \in Handlers |-> NoPayload]
    /\ lastLog = ""
    /\ queue = << >>
    /\ dirty = {}
    /\ processing = {}
    /\ wkey = ""
    /\ committed = [h \in Handlers |-> NoTime]
    /\ failed = {}
    /\ episode = [p \in Pods |-> "normal"]
    /\ result = Pending

\* main has built the controller (main.go line 20) and not yet called Run.
BeforeRun ==
    /\ run = "Start"
    /\ stopCh = FALSE
    /\ exit = ""
    /\ inFlight = {}

Init ==
    /\ variant \in {"cache", "queue"}
    /\ NewController
    /\ BeforeRun
    /\ input = Absent

\* The process has not ended.
Alive == exit = ""

\* The informer is running (Run started it and stopCh is open): it takes events
\* in and calls the handlers registered by NewController.
Intake == Alive /\ stopCh = FALSE /\ run \in {"WaitForCacheSync", "Steady"}

\* ------------------------------------------------------------ alert-cache controller


\* A faulty IsSuppressed: the comparison inverted.
IsSuppressed_inverted(ex, last, t) == ex /\ t - last > alertWaitPeriod

\* A faulty IsSuppressed: the boundary counted as inside the window.
IsSuppressed_inclusive(ex, last, t) == ex /\ t - last <= alertWaitPeriod

\* if exists && time.Since(lastAlertTime) < alertWaitPeriod { ... return }
IsSuppressed(ex, last, t) == ex /\ t - last < alertWaitPeriod


\* A faulty onUpdateTriggers: any change of a bad pod's status counts as an edge.
onUpdateTriggers_onChange(oldStatus, newStatus) ==
    checkPodBadState(newStatus).isBad /\ oldStatus # newStatus

\* A faulty onUpdateTriggers: the old pod's state is not looked at.
onUpdateTriggers_ignoresOld(oldStatus, newStatus) == checkPodBadState(newStatus).isBad

\* onUpdate: if !wasBad && isBad
onUpdateTriggers(oldStatus, newStatus) ==
    /\ ~checkPodBadState(oldStatus).isBad
    /\ checkPodBadState(newStatus).isBad


\* A faulty onAddTriggers: only the containers' states are looked at.
onAddTriggers_containersOnly(status) ==
    scanContainers(status.containerStatuses, 1).isBad

\* onAdd: if isBad, reason := checkPodBadState(pod); isBad
onAddTriggers(status) == checkPodBadState(status).isBad


\* A faulty AlertPayload: the pod's namespace sent as its name.
AlertPayload_swapped(pod, reason) ==
    [namespace |-> pod.name, pod_name |-> pod.namespace, reason |-> reason]

\* triggerAnalysis: payload := map[string]string{...}
AlertPayload(pod, reason) ==
    [namespace |-> pod.namespace, pod_name |-> pod.name, reason |-> reason]

\* The handler goroutine h logs msg and calls c.checkAndTrigger(pod, reason).
CallCheckAndTrigger(h, pod, reason, msg) ==
    /\ lastLog' = msg
    /\ pc' = [pc EXCEPT ![h] = "RLock"]
    /\ hpod' = [hpod EXCEPT ![h] = pod]
    /\ hreason' = [hreason EXCEPT ![h] = reason]
    /\ UNCHANGED << lastAlertTime, exists, payload, committed >>

\* The handler goroutine h returns from its handler.
Return(h) ==
    /\ pc' = [pc EXCEPT ![h] = "idle"]
    /\ hpod' = [hpod EXCEPT ![h] = NoPod]
    /\ hreason' = [hreason EXCEPT ![h] = ""]
    /\ lastAlertTime' = [lastAlertTime EXCEPT ![h] = 0]
    /\ exists' = [exists EXCEPT ![h] = FALSE]
    /\ payload' = [payload EXCEPT ![h] = NoPayload]
    /\ committed' = [committed EXCEPT ![h] = NoTime]

\* The history of pod p after an event that observed `status` and did (candidate)
\* or did not produce a candidate.
Observed(p, status, candidate) ==
    episode' =
        [episode EXCEPT ![p] =
            IF candidate THEN "candidate"
            ELSE IF ~checkPodBadState(status).isBad THEN "normal"
            ELSE "stillBad"]

\* AddFunc: c.onAdd. The informer adds the pod to its store and calls onAdd(pod).
onAdd(h, p, status) ==
    /\ Intake
    /\ variant = "cache"
    /\ pc[h] = "idle"
    /\ store[p] = Absent
    /\ store' = [store EXCEPT ![p] = status]
    /\ Observed(p, status, onAddTriggers(status))
    /\ IF onAddTriggers(status)
       THEN CallCheckAndTrigger(h, PodObject(p, status), checkPodBadState(status).reason,
                                LogTriggerAdd)
       ELSE UNCHANGED << handlerVars, lastLog >>
    /\ UNCHANGED << variant, lifeVars, now, alertCache, lockVars, queueVars, failed, classifyVars >>

\* UpdateFunc: c.onUpdate. The informer replaces the stored pod (a resync delivers
\* the stored pod as both old and new) and calls onUpdate(old, new).
onUpdate(h, p, status) ==
    /\ Intake
    /\ variant = "cache"
    /\ pc[h] = "idle"
    /\ store[p] # Absent
    /\ store' = [store EXCEPT ![p] = status]
    /\ Observed(p, status, onUpdateTriggers(store[p], status))
    /\ IF onUpdateTriggers(store[p], status)
       THEN CallCheckAndTrigger(h, PodObject(p, status), checkPodBadState(status).reason,
                                LogTriggerUpdate)
       ELSE UNCHANGED << handlerVars, lastLog >>
    /\ UNCHANGED << variant, lifeVars, now, alertCache, lockVars, queueVars, failed, classifyVars >>


\* A faulty DeleteFunc: c.onAdd registered as DeleteFunc too.
DeleteFunc_onAdd(h, p) ==
    /\ UNCHANGED episode
    /\ IF checkPodBadState(store[p]).isBad
       THEN CallCheckAndTrigger(h, PodObject(p, store[p]), checkPodBadState(store[p]).reason,
                                LogTriggerAdd)
       ELSE UNCHANGED << handlerVars, lastLog >>

\* ResourceEventHandlerFuncs{AddFunc, UpdateFunc}: no DeleteFunc is registered, so
\* the deletion of pod p, seen by goroutine h, calls nothing.
DeleteFunc(h, p) ==
    UNCHANGED << handlerVars, lastLog, episode >>


\* A faulty onDelete: a delete handler that evicts the deleted pod's entry.
onDelete_evicts(h, p) ==
    /\ Intake
    /\ variant = "cache"
    /\ pc[h] = "idle"
    /\ store[p] # Absent
    /\ store' = [store EXCEPT ![p] = Absent]
    /\ DeleteFunc(h, p)
    /\ alertCache' = [k \in DOMAIN alertCache \ {podKey(p)} |-> alertCache[k]]
    /\ UNCHANGED << variant, lifeVars, now, lockVars, queueVars, failed, classifyVars >>


\* The informer removes the pod from its store.
onDelete(h, p) ==
    /\ Intake
    /\ variant = "cache"
    /\ pc[h] = "idle"
    /\ store[p] # Absent
    /\ store' = [store EXCEPT ![p] = Absent]
    /\ DeleteFunc(h, p)
    /\ UNCHANGED << variant, lifeVars, now, alertCache, lockVars, queueVars, failed, classifyVars >>

\* A handler has called c.cacheMutex.Lock() and waits for the readers to leave.
\* sync.RWMutex lets one writer at a time (the holder of its writers' mutex) wait
\* so, and holds new readers back from then until that writer unlocks.
WriterPending == \E g \in Handlers : pc[g] = "LockWait"

\* c.cacheMutex.RLock(); lastAlertTime, exists := c.alertCache[podKey]
RLock(h) ==
    /\ Alive
    /\ pc[h] = "RLock"
    /\ writer = {}
    /\ ~WriterPending
    /\ readers' = readers \cup {h}
    /\ exists' = [exists EXCEPT ![h] = podKey(hpod[h]) \in DOMAIN alertCache]
    /\ lastAlertTime' =
           [lastAlertTime EXCEPT ![h] =
               IF podKey(hpod[h]) \in DOMAIN alertCache THEN alertCache[podKey(hpod[h])] ELSE 0]
    /\ pc' = [pc EXCEPT ![h] = "RUnlock"]
    /\ UNCHANGED << variant, lifeVars, now, store, alertCache, writer, hpod, hreason, payload, lastLog,
                    queueVars, committed, failed, episode, classifyVars >>


\* A faulty RUnlock: the read lock is not released before the check (and so is
\* still held when the same goroutine asks for the write lock).
RUnlock_forgotten(h) ==
    /\ Alive
    /\ pc[h] = "RUnlock"
    /\ pc' = [pc EXCEPT ![h] = "Check"]
    /\ UNCHANGED << variant, lifeVars, now, store, alertCache, readers, writer, hpod, hreason,
                    lastAlertTime, exists, payload, lastLog, queueVars, committed, failed,
                    episode, classifyVars >>


\* c.cacheMutex.RUnlock()
RUnlock(h) ==
    /\ Alive
    /\ pc[h] = "RUnlock"
    /\ readers' = readers \ {h}
    /\ pc' = [pc EXCEPT ![h] = "Check"]
    /\ UNCHANGED << variant, lifeVars, now, store, alertCache, writer, hpod, hreason, lastAlertTime,
                    exists, payload, lastLog, queueVars, committed, failed, episode,
                    classifyVars >>


\* A faulty Check: a suppressed candidate refreshes the entry's time.
Check_refresh(h) ==
    /\ Alive
    /\ pc[h] = "Check"
    /\ IF IsSuppressed(exists[h], lastAlertTime[h], now)
       THEN /\ lastLog' = LogSuppressed
            /\ alertCache' = (podKey(hpod[h]) :> now) @@ alertCache
            /\ Return(h)
       ELSE /\ pc' = [pc EXCEPT ![h] = "Lock"]
            /\ UNCHANGED << hpod, hreason, lastAlertTime, exists, payload, committed, lastLog,
                            alertCache >>
    /\ UNCHANGED << variant, lifeVars, now, store, lockVars, queueVars, failed, episode,
                    classifyVars >>


\* if exists && time.Since(lastAlertTime) < alertWaitPeriod { log; return }
Check(h) ==
    /\ Alive
    /\ pc[h] = "Check"
    /\ IF IsSuppressed(exists[h], lastAlertTime[h], now)
       THEN /\ lastLog' = LogSuppressed
            /\ Return(h)
       ELSE /\ pc' = [pc EXCEPT ![h] = "Lock"]
            /\ UNCHANGED << hpod, hreason, lastAlertTime, exists, payload, committed, lastLog >>
    /\ UNCHANGED << variant, lifeVars, now, store, alertCache, lockVars, queueVars, failed, episode,
                    classifyVars >>


\* c.cacheMutex.Lock() is called: the handler takes the RWMutex's writers' mutex
\* (no other writer waits or holds the lock) and from now on holds new readers
\* back.
Lock(h) ==
    /\ Alive
    /\ pc[h] = "Lock"
    /\ writer = {}
    /\ ~WriterPending
    /\ pc' = [pc EXCEPT ![h] = "LockWait"]
    /\ UNCHANGED << variant, lifeVars, now, store, alertCache, lockVars, hpod, hreason,
                    lastAlertTime, exists, payload, lastLog, queueVars, committed, failed,
                    episode, classifyVars >>

\* A faulty Write: the write lock is taken and the cache is not written.
Write_skipped(h) ==
    /\ Alive
    /\ pc[h] = "LockWait"
    /\ readers = {}
    /\ writer' = {h}
    /\ pc' = [pc EXCEPT ![h] = "Unlock"]
    /\ UNCHANGED << variant, lifeVars, now, store, alertCache, readers, hpod, hreason,
                    lastAlertTime, exists, payload, lastLog, queueVars, committed, failed,
                    episode, classifyVars >>

\* c.cacheMutex.Lock() returns, the last reader having left, and the handler
\* writes: c.alertCache[podKey] = time.Now()
Write(h) ==
    /\ Alive
    /\ pc[h] = "LockWait"
    /\ readers = {}
    /\ writer' = {h}
    /\ alertCache' = (podKey(hpod[h]) :> now) @@ alertCache
    /\ committed' = [committed EXCEPT ![h] = now]
    /\ failed' = failed \ {podKey(hpod[h])}
    /\ pc' = [pc EXCEPT ![h] = "Unlock"]
    /\ UNCHANGED << variant, lifeVars, now, store, readers, hpod, hreason, lastAlertTime, exists,
                    payload, lastLog, queueVars, episode, classifyVars >>


\* A faulty Unlock: the unlock deferred (defer c.cacheMutex.Unlock()), so that the
\* write lock is still held while triggerAnalysis runs.
Unlock_deferred(h) ==
    /\ Alive
    /\ pc[h] = "Unlock"
    /\ lastLog' = LogTriggering
    /\ payload' = [payload EXCEPT ![h] = AlertPayload(hpod[h], hreason[h])]
    /\ pc' = [pc EXCEPT ![h] = "Do"]
    /\ UNCHANGED << variant, lifeVars, now, store, alertCache, readers, writer, hpod, hreason,
                    lastAlertTime, exists, queueVars, committed, failed, episode,
                    classifyVars >>


\* c.cacheMutex.Unlock(); c.triggerAnalysis(pod, reason) up to client.Do: it logs,
\* builds the payload, marshals it and puts it in the POST request (json.Marshal of
\* a map[string]string and http.NewRequest of the fixed URL do not fail).
Unlock(h) ==
    /\ Alive
    /\ pc[h] = "Unlock"
    /\ writer' = writer \ {h}
    /\ lastLog' = LogTriggering
    /\ payload' = [payload EXCEPT ![h] = AlertPayload(hpod[h], hreason[h])]
    /\ pc' = [pc EXCEPT ![h] = "Do"]
    /\ UNCHANGED << variant, lifeVars, now, store, alertCache, readers, hpod, hreason, lastAlertTime,
                    exists, queueVars, committed, failed, episode, classifyVars >>


\* A faulty AfterDo: a failed delivery removes the pod's entry again.
AfterDo_rollback(h, outcome) ==
    alertCache' =
        IF outcome = "ok" THEN alertCache
        ELSE [k \in DOMAIN alertCache \ {podKey(hpod[h])} |-> alertCache[k]]

\* What the end of client.Do does to the alert cache: nothing, whatever the outcome.
AfterDo(h, outcome) == UNCHANGED alertCache


\* A faulty Do: a delivery that failed is logged and tried again.
Do_retry(h, outcome) ==
    /\ Alive
    /\ pc[h] = "Do"
    /\ AfterDo(h, outcome)
    /\ lastLog' = CASE outcome = "error" -> LogSendFailed
                    [] outcome = "non200" -> LogNon200
                    [] OTHER -> LogSuccess
    /\ failed' = IF outcome = "ok" THEN failed ELSE failed \cup {podKey(hpod[h])}
    /\ IF outcome = "ok" THEN Return(h) ELSE UNCHANGED handlerVars
    /\ UNCHANGED << variant, lifeVars, now, store, lockVars, queueVars, episode, classifyVars >>


\* resp, err := client.Do(req) and the rest of triggerAnalysis: a transport error
\* or the 5 s timeout ("error"), a status other than 200 ("non200"), or 200 ("ok");
\* each is logged and the handler returns.
Do(h, outcome) ==
    /\ Alive
    /\ pc[h] = "Do"
    /\ AfterDo(h, outcome)
    /\ lastLog' = CASE outcome = "error" -> LogSendFailed
                    [] outcome = "non200" -> LogNon200
                    [] OTHER -> LogSuccess
    /\ failed' = IF outcome = "ok" THEN failed ELSE failed \cup {podKey(hpod[h])}
    /\ Return(h)
    /\ UNCHANGED << variant, lifeVars, now, store, lockVars, queueVars, episode, classifyVars >>

\* Time passes.
Tick ==
    /\ Alive
    /\ now < MaxTime
    /\ now' = now + 1
    /\ UNCHANGED << variant, lifeVars, store, alertCache, lockVars, handlerVars, lastLog, queueVars,
                    failed, episode, classifyVars >>

\* ------------------------------------------------------------ work-queue controller

\* workqueue Add(item): a key already dirty is dropped; a key a worker holds is
\* marked dirty and queued again only by Done.
QueueAdd(key) ==
    IF key \in dirty THEN UNCHANGED << queue, dirty >>
    ELSE /\ dirty' = dirty \cup {key}
         /\ queue' = IF key \in processing THEN queue ELSE Append(queue, key)

\* AddFunc: controller.handleAdd
handleAdd(p, status) ==
    /\ Intake
    /\ variant = "queue"
    /\ store[p] = Absent
    /\ store' = [store EXCEPT ![p] = status]
    /\ lastLog' = LogPodAdded
    /\ QueueAdd(podKey(p))
    /\ UNCHANGED << variant, lifeVars, now, alertCache, lockVars, handlerVars, processing, wkey,
                    failed, episode, classifyVars >>

\* UpdateFunc: controller.handleUpdate
handleUpdate(p, status) ==
    /\ Intake
    /\ variant = "queue"
    /\ store[p] # Absent
    /\ store' = [store EXCEPT ![p] = status]
    /\ IF store[p].phase # status.phase
       THEN /\ lastLog' = LogPodUpdated
            /\ QueueAdd(podKey(p))
       ELSE UNCHANGED << queue, dirty, lastLog >>
    /\ UNCHANGED << variant, lifeVars, now, alertCache, lockVars, handlerVars, processing, wkey,
                    failed, episode, classifyVars >>

\* handleDelete: key, err := cache.MetaNamespaceKeyFunc(obj); c.queue.Add(key)
handleDeleteEnqueue(p) == QueueAdd(podKey(p))

\* What a delete notification carries: the deleted pod, or the tombstone
\* (cache.DeletedFinalStateUnknown) the informer passes when it missed the deletion
\* and learns of it from a re-list.
DeleteObjects == {"*corev1.Pod", "cache.DeletedFinalStateUnknown"}

\* pod := obj.(*corev1.Pod): the unchecked type assertion succeeds on a pod only.
IsPod(obj) == obj = "*corev1.Pod"

\* DeleteFunc: controller.handleDelete. On an object that is not a pod the type
\* assertion panics in the informer's goroutine, which ends the process.
handleDelete(p, obj) ==
    /\ Intake
    /\ variant = "queue"
    /\ store[p] # Absent
    /\ store' = [store EXCEPT ![p] = Absent]
    /\ IF IsPod(obj)
       THEN /\ lastLog' = LogPodDeleted
            /\ handleDeleteEnqueue(p)
            /\ UNCHANGED exit
       ELSE /\ exit' = "panic"
            /\ UNCHANGED << lastLog, queue, dirty >>
    /\ UNCHANGED << variant, run, stopCh, inFlight, now, alertCache, lockVars, handlerVars,
                    processing, wkey, failed, episode, classifyVars >>

\* processNextItem: key, quit := c.queue.Get()
processNextItem ==
    /\ Alive
    /\ run = "Steady"
    /\ variant = "queue"
    /\ wkey = ""
    /\ queue # << >>
    /\ wkey' = Head(queue)
    /\ queue' = Tail(queue)
    /\ processing' = processing \cup {Head(queue)}
    /\ dirty' = dirty \ {Head(queue)}
    /\ UNCHANGED << variant, lifeVars, now, store, alertCache, lockVars, handlerVars, lastLog, failed,
                    episode, classifyVars >>

\* processItem(key) logs and returns nil; then c.queue.Forget(key) and the
\* deferred c.queue.Done(key).
processItem ==
    /\ Alive
    /\ variant = "queue"
    /\ wkey # ""
    /\ lastLog' = LogProcessing
    /\ wkey' = ""
    /\ processing' = processing \ {wkey}
    /\ queue' = IF wkey \in dirty THEN Append(queue, wkey) ELSE queue
    /\ UNCHANGED << variant, lifeVars, now, store, alertCache, lockVars, handlerVars, dirty,
                    failed, episode, classifyVars >>

\* ------------------------------------------------------------ main and Run
\* Run, first part: it logs and starts the informer (go c.Informer.Run(stopCh),
\* c.informerFactory.Start(stopCh)), then waits in cache.WaitForCacheSync.
RunStart ==
    /\ Alive
    /\ run = "Start"
    /\ run' = "WaitForCacheSync"
    /\ UNCHANGED << variant, stopCh, exit, inFlight, now, store, alertCache, lockVars, handlerVars,
                    lastLog, queueVars, failed, episode, classifyVars >>

\* cache.WaitForCacheSync(stopCh, HasSynced) returns true: Run goes on to its
\* steady state, <-stopCh (alert-cache controller) or wait.Until(c.runWorker, ...)
\* (work-queue controller).
CacheSynced ==
    /\ Alive
    /\ run = "WaitForCacheSync"
    /\ stopCh = FALSE
    /\ run' = "Steady"
    /\ UNCHANGED << variant, stopCh, exit, inFlight, now, store, alertCache, lockVars, handlerVars,
                    lastLog, queueVars, failed, episode, classifyVars >>

\* What Run does when WaitForCacheSync returns false: the alert-cache controller
\* calls log.Fatalf, which ends the process; the work-queue controller calls
\* runtime.HandleError(nil) and returns.
AfterSyncFailed ==
    IF variant = "cache"
    THEN run' = "Fatal" /\ exit' = "fatal"
    ELSE run' = "SyncFailedReturn" /\ UNCHANGED exit

\* cache.WaitForCacheSync returns false: stopCh was closed before the cache synced.
SyncFailed ==
    /\ Alive
    /\ run = "WaitForCacheSync"
    /\ stopCh = TRUE
    /\ AfterSyncFailed
    /\ UNCHANGED << variant, stopCh, inFlight, now, store, alertCache, lockVars, handlerVars,
                    lastLog, queueVars, failed, episode, classifyVars >>

\* main's goroutine of lines 27-31: SIGINT or SIGTERM arrives and it closes stopCh.
Signal ==
    /\ Alive
    /\ stopCh = FALSE
    /\ stopCh' = TRUE
    /\ inFlight' = { h \in Handlers : pc[h] = "Do" }
    /\ UNCHANGED << variant, run, exit, now, store, alertCache, lockVars, handlerVars,
                    lastLog, queueVars, failed, episode, classifyVars >>

\* The alert-cache controller's Run passes <-stopCh, logs and returns. (The
\* work-queue controller's wait.Until does not return: runWorker leaves its loop
\* only when the queue is shut down, which Run defers until it returns.)
RunReturn ==
    /\ Alive
    /\ variant = "cache"
    /\ run = "Steady"
    /\ stopCh = TRUE
    /\ run' = "Returned"
    /\ UNCHANGED << variant, stopCh, exit, inFlight, now, store, alertCache, lockVars, handlerVars,
                    lastLog, queueVars, failed, episode, classifyVars >>

\* controller.Run(stopCh) has returned, and main returns: the process ends,
\* whatever its other goroutines are doing.
mainReturn ==
    /\ Alive
    /\ run \in {"Returned", "SyncFailedReturn"}
    /\ exit' = "returned"
    /\ UNCHANGED << variant, run, stopCh, inFlight, now, store, alertCache, lockVars, handlerVars,
                    lastLog, queueVars, failed, episode, classifyVars >>

\* ------------------------------------------------------------ specification
\* The informer calls the handlers it was given from one goroutine, one event
\* at a time: the next event's handler starts when the previous one has returned.
Listener == 1

Next ==
    \/ \E p \in Pods, status \in EventObs : onAdd(Listener, p, status)
    \/ \E p \in Pods, status \in EventObs : onUpdate(Listener, p, status)
    \/ \E p \in Pods : onDelete(Listener, p)
    \/ RLock(Listener)
    \/ RUnlock(Listener)
    \/ Check(Listener)
    \/ Lock(Listener)
    \/ Write(Listener)
    \/ Unlock(Listener)
    \/ \E outcome \in {"error", "non200", "ok"} : Do(Listener, outcome)
    \/ \E p \in Pods, status \in EventObs : handleAdd(p, status)
    \/ \E p \in Pods, status \in EventObs : handleUpdate(p, status)
    \/ \E p \in Pods, obj \in DeleteObjects : handleDelete(p, obj)
    \/ processNextItem
    \/ processItem
    \/ RunStart
    \/ CacheSynced
    \/ SyncFailed
    \/ Signal
    \/ RunReturn
    \/ mainReturn
    \/ Tick

Spec == Init /\ [][Next]_vars

\* ------------------------------------------------------------ concurrent handlers
\* Event-handling paths that run concurrently: each goroutine of Handlers may be
\* inside checkAndTrigger at the same time.

\* An event handler of goroutine h (onAdd or onUpdate) has found pod p in the bad
\* state `status`, logs msg and calls c.checkAndTrigger(pod, reason).
Candidate(h, p, status, msg) ==
    /\ Intake
    /\ variant = "cache"
    /\ pc[h] = "idle"
    /\ checkPodBadState(status).isBad
    /\ CallCheckAndTrigger(h, PodObject(p, status), checkPodBadState(status).reason, msg)
    /\ UNCHANGED << variant, lifeVars, now, store, alertCache, lockVars, queueVars, failed, episode,
                    classifyVars >>

ConcInit ==
    /\ variant = "cache"
    /\ NewController
    /\ run = "Steady"
    /\ stopCh = FALSE
    /\ exit = ""
    /\ inFlight = {}
    /\ input = Absent

ConcNext ==
    \/ \E h \in Handlers, p \in Pods, status \in ConcObs,
          msg \in {LogTriggerAdd, LogTriggerUpdate} : Candidate(h, p, status, msg)
    \/ \E h \in Handlers : RLock(h)
    \/ \E h \in Handlers : RUnlock(h)
    \/ \E h \in Handlers : Check(h)
    \/ \E h \in Handlers : Lock(h)
    \/ \E h \in Handlers : Write(h)
    \/ \E h \in Handlers : Unlock(h)
    \/ \E h \in Handlers, outcome \in {"error", "non200", "ok"} : Do(h, outcome)
    \/ Tick

ConcSpec == ConcInit /\ [][ConcNext]_vars

\* Fair scheduling of the handler goroutines. A goroutine that can run its next
\* statement eventually runs it (weak fairness), and client.Do returns or times
\* out after 5 s. A goroutine that calls RLock or Lock gets past the RWMutex's
\* gate whenever the gate keeps opening (strong fairness): the readers held back
\* by a writer are let in when it unlocks, before the next writer, and the
\* writers' mutex hands over to a waiter that has waited long.
Fairness ==
    \A h \in Handlers :
        /\ SF_vars(RLock(h))
        /\ WF_vars(RUnlock(h))
        /\ WF_vars(Check(h))
        /\ SF_vars(Lock(h))
        /\ WF_vars(Write(h))
        /\ WF_vars(Unlock(h))
        /\ WF_vars(\E outcome \in {"error", "non200", "ok"} : Do(h, outcome))

\* The concurrent handlers while the clock stands still (the locking does not
\* depend on the time).
FairConcNext ==
    \/ \E h \in Handlers, p \in Pods, status \in ConcObs,
          msg \in {LogTriggerAdd, LogTriggerUpdate} : Candidate(h, p, status, msg)
    \/ \E h \in Handlers : RLock(h)
    \/ \E h \in Handlers : RUnlock(h)
    \/ \E h \in Handlers : Check(h)
    \/ \E h \in Handlers : Lock(h)
    \/ \E h \in Handlers : Write(h)
    \/ \E h \in Handlers : Unlock(h)
    \/ \E h \in Handlers, outcome \in {"error", "non200", "ok"} : Do(h, outcome)

FairConcSpec == ConcInit /\ [][FairConcNext]_vars /\ Fairness

\* ------------------------------------------------------------ classifier harness
\* checkPodBadState applied to every status of AllStatuses.
ClassifyInit ==
    /\ variant = "cache"
    /\ NewController
    /\ BeforeRun
    /\ input \in AllStatuses

Classify ==
    /\ result = Pending
    /\ result' = checkPodBadState(input)
    /\ UNCHANGED << variant, lifeVars, now, store, alertCache, lockVars, handlerVars, lastLog,
                    queueVars, failed, episode, input >>

ClassifyNext == Classify

ClassifySpec == ClassifyInit /\ [][ClassifyNext]_vars

\* ------------------------------------------------------------ properties
Key(h) == podKey(hpod[h])
IsBad(status) == checkPodBadState(status).isBad
InWindow(key) == key \in DOMAIN alertCache /\ now - alertCache[key] < alertWaitPeriod

\* Steps of handler goroutine h.
CheckStep(h) == pc[h] = "Check" /\ pc'[h] # "Check"
LockStep(h) == pc[h] = "Lock" /\ pc'[h] # "Lock"
WriteStep(h) == pc[h] = "LockWait" /\ pc'[h] # "LockWait"
UnlockStep(h) == pc[h] = "Unlock" /\ pc'[h] # "Unlock"
DoFailedStep(h) == pc[h] = "Do" /\ pc'[h] # "Do" /\ lastLog' \in {LogSendFailed, LogNon200}
\* The step calls checkAndTrigger for pod p: a candidate.
CandidateStep(p) ==
    \E h \in Handlers : pc[h] = "idle" /\ pc'[h] = "RLock" /\ podKey(hpod'[h]) = podKey(p)

\* The informer's events of the alert-cache controller, read off the store.
CreatedEvent(p) == variant = "cache" /\ store[p] = Absent /\ store'[p] # Absent
UpdatedEvent(p) ==
    /\ variant = "cache"
    /\ store[p] # Absent
    /\ store'[p] # Absent
    /\ << store[p], episode[p] >> # << store'[p], episode'[p] >>
DeletedEvent(p) == store[p] # Absent /\ store'[p] = Absent

\* C1: once alertCache holds a time t0 for a pod's key, a candidate for that key
\* checked at a time t1 with t1 - t0 < alertWaitPeriod is suppressed: the handler
\* logs the suppression and returns, the cache is unchanged and no request is built
\* (also when the candidate comes from a new bad episode of the pod).
C1_SuppressedInsideWindow ==
    [][\A h \in Handlers :
          (CheckStep(h) /\ InWindow(Key(h)))
              => /\ pc'[h] = "idle"
                 /\ lastLog' = LogSuppressed
                 /\ alertCache' = alertCache
                 /\ payload'[h] = NoPayload]_vars

\* C1 witness: a candidate that onUpdate produced (the pod was not bad and is bad
\* again) is at the check, an hour or more after the recorded alert and inside
\* the window.
C1_Witness ==
    /\ pc[Listener] = "Check"
    /\ lastLog = LogTriggerUpdate
    /\ exists[Listener]
    /\ lastAlertTime[Listener] < now
    /\ InWindow(Key(Listener))

\* C2 (as claimed): of the concurrent invocations for one key inside one window
\* exactly one is allowed, that is, no invocation writes the cache while the key's
\* entry lies inside the window.
C2_ExactlyOneAllowed ==
    [][\A h \in Handlers : WriteStep(h) => ~InWindow(Key(h))]_vars

\* C3: a candidate checked when its key has no entry, or an entry alertWaitPeriod
\* or more old (the boundary included), is allowed: the handler goes on to write
\* the clock's time into the key's entry and then to build and send the request.
C3_AllowedOutsideWindow ==
    [][\A h \in Handlers :
          /\ (CheckStep(h) /\ ~InWindow(Key(h))) => pc'[h] = "Lock"
          /\ LockStep(h) => (pc'[h] = "LockWait" /\ alertCache' = alertCache)
          /\ WriteStep(h) =>
                 /\ Key(h) \in DOMAIN alertCache'
                 /\ alertCache'[Key(h)] = now
                 /\ pc'[h] = "Unlock"
          /\ UnlockStep(h) =>
                 /\ pc'[h] = "Do"
                 /\ payload'[h] = AlertPayload(hpod[h], hreason[h])
                 /\ lastLog' = LogTriggering]_vars

\* C3 witness: a request is in flight for a key whose entry was overwritten exactly
\* alertWaitPeriod after the previous alert.
C3_Witness ==
    /\ pc[Listener] = "Do"
    /\ exists[Listener]
    /\ committed[Listener] - lastAlertTime[Listener] = alertWaitPeriod
    /\ alertCache[Key(Listener)] = committed[Listener]

\* C4 (as claimed): every not-bad -> bad transition produces a candidate, and after
\* a candidate no event produces another one for the pod until a not-bad
\* observation of it intervenes.
C4_OnePerTransitionUntilNotBad ==
    [][\A p \in Pods :
          variant = "cache" =>
              /\ (store'[p] # store[p] /\ ~IsBad(store[p]) /\ IsBad(store'[p]))
                     => CandidateStep(p)
              /\ CandidateStep(p) => episode[p] = "normal"]_vars

\* C4 (amended): an event produces a candidate exactly when it takes the pod from
\* not bad (or not in the store: a Created event) to bad; so after a candidate no
\* further one is produced until a not-bad observation intervenes or the pod is
\* deleted and created again.
C4_OnePerTransition ==
    [][\A p \in Pods :
          variant = "cache" =>
              /\ CandidateStep(p)
                     <=> (store'[p] # store[p] /\ ~IsBad(store[p]) /\ IsBad(store'[p]))
              /\ CandidateStep(p) => (episode[p] = "normal" \/ store[p] = Absent)]_vars

\* C4 witness: after its candidate the pod was observed bad again (no candidate),
\* and the handler is idle.
C4_Witness ==
    \E p \in Pods :
        /\ episode[p] = "stillBad"
        /\ IsBad(store[p])
        /\ podKey(p) \in DOMAIN alertCache
        /\ pc[Listener] = "idle"

\* C5: an Updated(old, new) event calls checkAndTrigger if and only if old is not
\* bad and new is bad; the event itself leaves the alert cache alone, and in the
\* other three cases the handler, the lock and the log are untouched as well.
C5_UpdateEdgeOnly ==
    [][\A p \in Pods :
          UpdatedEvent(p) =>
              /\ CandidateStep(p) <=> (~IsBad(store[p]) /\ IsBad(store'[p]))
              /\ alertCache' = alertCache
              /\ ~CandidateStep(p) => UNCHANGED << handlerVars, lockVars, lastLog >>]_vars

\* C5 witness: onUpdate has just called checkAndTrigger.
C5_Witness ==
    /\ pc[Listener] = "RLock"
    /\ lastLog = LogTriggerUpdate
    /\ \E p \in Pods : podKey(p) = Key(Listener) /\ store[p] = hpod[Listener].status

\* C6: a Created event calls checkAndTrigger (with the pod's reason) if and only
\* if the pod classifies as bad, whatever was observed of that identity before.
C6_CreatedBadIsCandidate ==
    [][\A p \in Pods :
          CreatedEvent(p) =>
              /\ CandidateStep(p) <=> IsBad(store'[p])
              /\ CandidateStep(p) =>
                     /\ lastLog' = LogTriggerAdd
                     /\ hreason'[Listener] = checkPodBadState(store'[p]).reason
              /\ ~CandidateStep(p) => UNCHANGED << handlerVars, lockVars, lastLog >>]_vars

\* C6 witness: onAdd has just called checkAndTrigger for an identity that was
\* alerted for before.
C6_Witness ==
    /\ pc[Listener] = "RLock"
    /\ lastLog = LogTriggerAdd
    /\ Key(Listener) \in DOMAIN alertCache

C8_FailedDispatchKeepsCommit ==
    [][\A h \in Handlers :
          /\ DoFailedStep(h) =>
                 /\ alertCache' = alertCache
                 /\ Key(h) \in DOMAIN alertCache'
                 /\ alertCache'[Key(h)] = committed[h]
                 /\ pc'[h] = "idle"
          /\ (CheckStep(h) /\ Key(h) \in failed /\ InWindow(Key(h)))
                 => /\ pc'[h] = "idle"
                    /\ lastLog' = LogSuppressed
                    /\ alertCache' = alertCache]_vars

\* C8 witness: a candidate was suppressed for the only key alerted for, whose
\* alert was not delivered.
C8_Witness ==
    /\ lastLog = LogSuppressed
    /\ \E p \in Pods : DOMAIN alertCache = {podKey(p)} /\ podKey(p) \in failed

Min(S) == CHOOSE x \in S : \A y \in S : x <= y

\* The containers of cs that are waiting with one of the three bad reasons.
BadWaiting(cs) ==
    { i \in 1..Len(cs) :
        cs[i].waiting \in {"CrashLoopBackOff", "ImagePullBackOff", "ErrImagePull"} }
\* The containers of cs that are terminated with reason "Error".
TerminatedError(cs) == { i \in 1..Len(cs) : cs[i].terminated = "Error" }

\* The classification by rule order: a bad waiting container anywhere comes
\* before a terminated one anywhere.
RuleOrderClassify(status) ==
    LET cs == status.containerStatuses IN
    IF status.phase = "Failed" THEN Verdict(TRUE, "PodFailed")
    ELSE IF BadWaiting(cs) # {} THEN Verdict(TRUE, cs[Min(BadWaiting(cs))].waiting)
    ELSE IF TerminatedError(cs) # {} THEN Verdict(TRUE, "Terminated(Error)")
    ELSE Verdict(FALSE, "")

\* The classification by container order: the first container that is bad
\* decides, its waiting state before its terminated state.
ContainerOrderClassify(status) ==
    LET cs == status.containerStatuses
        bad == BadWaiting(cs) \cup TerminatedError(cs)
    IN
    IF status.phase = "Failed" THEN Verdict(TRUE, "PodFailed")
    ELSE IF bad = {} THEN Verdict(FALSE, "")
    ELSE IF Min(bad) \in BadWaiting(cs) THEN Verdict(TRUE, cs[Min(bad)].waiting)
    ELSE Verdict(TRUE, "Terminated(Error)")

\* C9 (as claimed): checkPodBadState is the classification by rule order.
C9_RuleOrder == result # Pending => result = RuleOrderClassify(input)

\* C9 (what the code computes): checkPodBadState is the classification by
\* container order: phase
\* Failed first; otherwise the first container, in sequence order, that is waiting
\* with a bad reason or terminated with "Error" decides, its waiting state first.
C9_ContainerOrder == result # Pending => result = ContainerOrderClassify(input)

\* C9 witness: the pod whose first container is terminated with "Error" and whose
\* second is waiting in CrashLoopBackOff is classified Terminated(Error).
C9_Witness ==
    /\ input = ErrorThenCrashLoop
    /\ result = Verdict(TRUE, "Terminated(Error)")

\* C10: every request in flight carries the namespace and name of the pod of the
\* event that triggered it, and the reason checkPodBadState gives for the observed
\* status, which is bad and one of the five reasons.
C10_PayloadOfTriggeringPod ==
    \A h \in Handlers :
        pc[h] = "Do" =>
            \E p \in Pods :
                /\ hpod[h] = PodObject(p, store[p])
                /\ payload[h].namespace = p.namespace
                /\ payload[h].pod_name = p.name
                /\ IsBad(store[p])
                /\ payload[h].reason = checkPodBadState(store[p]).reason
                /\ payload[h].reason \in
                       {"PodFailed", "CrashLoopBackOff", "ImagePullBackOff", "ErrImagePull",
                        "Terminated(Error)"}

\* C10 witness: a request with reason PodFailed is in flight for a pod observed
\* with phase Failed and no container statuses.
C10_Witness ==
    \E h \in Handlers, p \in Pods :
        /\ pc[h] = "Do"
        /\ store[p] = FailedPod
        /\ payload[h] = [namespace |-> p.namespace, pod_name |-> p.name, reason |-> "PodFailed"]

\* A status none of the classifier's rules matches: the phase is not Failed and
\* every container (if any) has no waiting or terminated state, or one whose
\* reason is outside the bad sets.
NoRuleMatches(status) ==
    /\ status.phase # "Failed"
    /\ \A i \in 1..Len(status.containerStatuses) :
           /\ status.containerStatuses[i].waiting \notin
                  {"CrashLoopBackOff", "ImagePullBackOff", "ErrImagePull"}
           /\ status.containerStatuses[i].terminated # "Error"

\* C11: for every status that no rule matches (no container statuses, containers
\* with neither state, or reasons outside the bad sets such as "Completed"),
\* checkPodBadState returns (false, ""), so onAdd does not call checkAndTrigger for
\* it and neither does onUpdate, whatever the old status was.
C11_DefaultsToNotBad ==
    (result # Pending /\ NoRuleMatches(input)) =>
        /\ result = Verdict(FALSE, "")
        /\ ~onAddTriggers(input)
        /\ \A old \in AllStatuses : ~onUpdateTriggers(old, input)

\* C11 witness: a pod whose only container terminated with "Completed" has been
\* classified not bad.
C11_Witness ==
    /\ input = Completed
    /\ result = Verdict(FALSE, "")

\* C12 (as claimed): no handler runs before the initial synchronization has
\* succeeded: every onAdd and onUpdate invocation happens when WaitForCacheSync has
\* returned true in Run.
C12_SyncBeforeHandlers ==
    [][\A p \in Pods : (CreatedEvent(p) \/ UpdatedEvent(p)) => run = "Steady"]_vars

\* client.Do of handler h returns in this step (it is the only step that logs
\* while h is in triggerAnalysis).
DoStep(h) == pc[h] = "Do" /\ lastLog' # lastLog

\* C13: a request is sent at most once per allowed candidate: the handler reaches
\* client.Do only from the cache write of its own invocation, and whatever the
\* outcome of client.Do the handler returns with nothing queued for a retry; the
\* work-queue controller's worker does not requeue the key it has processed.
C13_AtMostOneAttempt ==
    [][/\ \A h \in Handlers :
             /\ (pc[h] # "Do" /\ pc'[h] = "Do") => pc[h] = "Unlock"
             /\ DoStep(h) =>
                    /\ pc'[h] = "idle"
                    /\ payload'[h] = NoPayload
                    /\ UNCHANGED << queueVars, alertCache >>
       /\ (wkey # "" /\ wkey' = "") =>
             /\ wkey \notin processing'
             /\ wkey \notin dirty => queue' = queue]_vars

\* C13 witness: the agent answered a request with a status other than 200 and the
\* handler has returned.
C13_Witness ==
    /\ lastLog = LogNon200
    /\ pc[Listener] = "idle"
    /\ payload[Listener] = NoPayload
    /\ failed # {}

\* C14 (as claimed): a dispatch in flight when stopCh is closed is allowed to
\* finish before the process exits: when main has returned, no handler that was
\* inside triggerAnalysis at the close of stopCh is still inside it.
C14_DispatchFinishesBeforeExit ==
    exit = "returned" => \A h \in inFlight : pc[h] # "Do"

\* C15 (as claimed): when the wait for the initial synchronization ends without
\* success, Run terminates the process (it does not merely return) and does not
\* go on to its steady state.
C15_SyncFailureIsFatal ==
    [][(run = "WaitForCacheSync" /\ stopCh /\ run' # run)
           => (exit' = "fatal" /\ run' # "Steady")]_vars

\* C16 (as claimed): handling an event, whatever object it carries (a deletion
\* tombstone included), does not end the process, so that the events that follow
\* for other pods are still handled.
C16_HandlerFailureIsolated ==
    [][\A p \in Pods : store'[p] # store[p] => exit' = ""]_vars

\* C17: a handler is past the cache write (about to call, or inside,
\* triggerAnalysis) only if its own invocation of checkAndTrigger wrote the pod's
\* entry, which still holds the time it wrote; the work-queue controller, which
\* has no suppression check, has no handler in checkAndTrigger and sends nothing.
C17_DispatchAfterWrite ==
    \A h \in Handlers :
        /\ pc[h] \in {"Unlock", "Do"} =>
               /\ committed[h] # NoTime
               /\ Key(h) \in DOMAIN alertCache
               /\ alertCache[Key(h)] = committed[h]
        /\ pc[h] = "Do" => payload[h] = AlertPayload(hpod[h], hreason[h])
        /\ variant = "queue" => (pc[h] = "idle" /\ payload[h] = NoPayload)

\* C17 witness: the first alert for a pod is in flight, its entry just written.
C17_Witness ==
    /\ pc[Listener] = "Do"
    /\ ~exists[Listener]
    /\ DOMAIN alertCache = {Key(Listener)}
    /\ alertCache[Key(Listener)] = committed[Listener]

\* C18: the alert cache changes only in the write of an allowed candidate, which
\* sets the entry of that candidate's key to the clock's time (creating it if it
\* is new) and leaves every other key's entry as it was; a suppressed candidate,
\* an event (with or without a candidate) and the return of client.Do, successful
\* or not, leave the whole cache unchanged.
C18_CacheChangesOnlyWhenAllowed ==
    [][/\ alertCache' # alertCache =>
             \E h \in Handlers :
                 /\ WriteStep(h)
                 /\ DOMAIN alertCache' = DOMAIN alertCache \cup {Key(h)}
                 /\ alertCache'[Key(h)] = now
                 /\ \A k \in DOMAIN alertCache \ {Key(h)} : alertCache'[k] = alertCache[k]
       /\ \A h \in Handlers :
             (CheckStep(h) /\ pc'[h] = "idle") \/ DoStep(h) => alertCache' = alertCache
       /\ \A p \in Pods : store'[p] # store[p] => alertCache' = alertCache]_vars

\* C18 witness: a handler has just written its key's entry while another key's
\* older entry is still there.
C18_Witness ==
    /\ pc[Listener] = "Unlock"
    /\ \E k \in DOMAIN alertCache :
           k # Key(Listener) /\ alertCache[k] < alertCache[Key(Listener)]

\* C19: no step removes a key from the alert cache, the deletion of the pod
\* included, which leaves the cache as it is; so the candidate of a pod that was
\* deleted and is created again in a bad state is suppressed when it is checked
\* inside the window of the entry its key still has.
C19_EntriesNeverRemoved ==
    [][/\ DOMAIN alertCache \subseteq DOMAIN alertCache'
       /\ \A p \in Pods : DeletedEvent(p) => alertCache' = alertCache
       /\ \A h \in Handlers :
             (CheckStep(h) /\ lastLog = LogTriggerAdd /\ InWindow(Key(h)))
                 => /\ pc'[h] = "idle"
                    /\ lastLog' = LogSuppressed
                    /\ payload'[h] = NoPayload]_vars

\* C19 witness: a pod alerted for earlier was deleted and created again in a bad
\* state, and its candidate is at the check inside the window of the old entry.
C19_Witness ==
    /\ pc[Listener] = "Check"
    /\ lastLog = LogTriggerAdd
    /\ exists[Listener]
    /\ InWindow(Key(Listener))
    /\ \E p \in Pods : podKey(p) = Key(Listener) /\ episode[p] = "candidate"

\* C20: a handler inside triggerAnalysis holds neither the read nor the write
\* lock of the alert cache; the locks are held only by the handlers between
\* RLock and RUnlock and between Lock and Unlock, so a request in flight never
\* keeps another handler's check from taking the lock.
C20_NoLockAcrossDispatch ==
    /\ \A h \in Handlers : pc[h] = "Do" => (h \notin readers /\ h \notin writer)
    /\ readers = { h \in Handlers : pc[h] = "RUnlock" }
    /\ writer = { h \in Handlers : pc[h] = "Unlock" }

\* C20 witness: while one handler's request is in flight another handler holds
\* the read lock for its check.
C20_Witness ==
    \E h \in Handlers, g \in Handlers :
        /\ pc[h] = "Do"
        /\ g # h
        /\ g \in readers
        /\ pc[g] = "RUnlock"

\* C21: under fair scheduling, with every client.Do returning or timing out,
\* every invocation of checkAndTrigger returns, however many handlers are inside
\* it for the same or for different keys: no handler waits for the lock forever.
C21_EveryInvocationReturns ==
    \A h \in Handlers : (pc[h] # "idle") ~> (pc[h] = "idle")

\* C21 witness: a handler has called Lock for a key and waits while another
\* handler, checking the same key, holds the read lock.
C21_Witness ==
    \E h \in Handlers, g \in Handlers :
        /\ h # g
        /\ pc[h] = "LockWait"
        /\ g \in readers
        /\ Key(g) = Key(h)

====
